---- MODULE Spec2Model ----
(***************************************************************************)
(* Model of src/main.py: the podcast transcript downloader.                *)
(*                                                                         *)
(* Strings are sequences of tokens.  A token is an atomic piece of text    *)
(* (".html", "a", "?", "All_Transcripts", ...); no token is a prefix of    *)
(* another one that can stand at the same place, so the order of two       *)
(* strings is the lexicographic order of their token sequences.            *)
(* The disk is a function from paths (token sequences) to file contents.   *)
(***************************************************************************)
EXTENDS Naturals, Sequences, FiniteSets, TLC

\* ---------------------------------------------------------------- bounds
MaxEntries == 2
MaxRuns == 2

\* ------------------------------------------------------------ text model
NoTitle == <<"<absent>">>
NoDate == "<absent>"
NoneV == "None"

RECURSIVE RemoveIllegal(_)
RemoveIllegal(s) ==
    IF s = <<>> THEN <<>>
    ELSE IF Head(s) \in {"\\", "/", ":", "*", "?", "\"", "<", ">", "|"}
         THEN RemoveIllegal(Tail(s))
         ELSE <<Head(s)>> \o RemoveIllegal(Tail(s))

RECURSIVE LStrip(_)
LStrip(s) == IF s # <<>> /\ Head(s) = " " THEN LStrip(Tail(s)) ELSE s

RECURSIVE RStrip(_)
RStrip(s) ==
    IF s # <<>> /\ s[Len(s)] = " " THEN RStrip(SubSeq(s, 1, Len(s) - 1)) ELSE s

\* sanitize_filename: drop the illegal characters, then strip whitespace
sanitize_filename(filename) == RStrip(LStrip(RemoveIllegal(filename)))

\* str.replace('.html', '.txt'): every occurrence, wherever it stands
ReplaceHtml(s) == [k \in DOMAIN s |-> IF s[k] = ".html" THEN ".txt" ELSE s[k]]

\* os.path.join(a, b) for a relative b
PathJoin(a, b) ==
    IF a = <<>> THEN b
    ELSE IF a[Len(a)] = "/" THEN a \o b ELSE a \o <<"/">> \o b

Contains(s, tok) == \E k \in DOMAIN s : s[k] = tok

EndsWith(s, tok) == s # <<>> /\ s[Len(s)] = tok

\* code point order of the first characters that tell two tokens apart
TokRank(t) ==
    CASE t = " " -> 1
      [] t = ".html" -> 2
      [] t = ".json" -> 3
      [] t = ".srt" -> 4
      [] t = ".txt" -> 5
      [] t = ".vtt" -> 6
      [] t = "0000-00-00" -> 7
      [] t = "0" -> 8
      [] t = "1" -> 9
      [] t = "2" -> 10
      [] t = "2023-01-05" -> 11
      [] t = "3" -> 12
      [] t = "All_Transcripts" -> 13
      [] t = "Episode_" -> 14
      [] t = "P" -> 15
      [] t = "_" -> 16
      [] t = "a" -> 17
      [] t = "b" -> 18
      [] OTHER -> 19

RECURSIVE StrLess(_, _)
StrLess(s, t) ==
    IF s = <<>> THEN t # <<>>
    ELSE IF t = <<>> THEN FALSE
    ELSE IF Head(s) = Head(t) THEN StrLess(Tail(s), Tail(t))
    ELSE TokRank(Head(s)) < TokRank(Head(t))

\* sorted(...) of a set of distinct strings
RECURSIVE Sorted(_)
Sorted(S) ==
    IF S = {} THEN <<>>
    ELSE LET m == CHOOSE x \in S : \A y \in S \ {x} : StrLess(x, y)
         IN  <<m>> \o Sorted(S \ {m})

\* ------------------------------------------------------------ the disk
Write(disk, p, c) ==
    [q \in (DOMAIN disk) \cup {p} |-> IF q = p THEN c ELSE disk[q]]

Exists(disk, p) == p \in DOMAIN disk

Append2(disk, p, line) == Write(disk, p, Append(disk[p], line))

\* os.listdir(d): the names of the files directly in directory d
ListDir(disk, d) ==
    LET base == PathJoin(d, <<>>)
    IN  { SubSeq(p, Len(base) + 1, Len(p)) :
            p \in { q \in DOMAIN disk :
                      /\ Len(q) > Len(base)
                      /\ SubSeq(q, 1, Len(base)) = base
                      /\ ~Contains(SubSeq(q, Len(base) + 1, Len(q)), "/") } }

\* ------------------------------------------------------- network, content
Urls == {"u1", "u2"}

\* what a GET of a transcript URL can bring: an error (exception, non-2xx
\* status, timeout) or a body.  "c1" is well-formed; "bad" is a body that
\* html.parser rejects and that is not valid UTF-8.
Bodies == {"c1", "bad"}
Responses == {"fail"} \cup Bodies

Raw(body) == <<body>>

HtmlRejected(body) == body = "bad"

\* html_to_text: the flattened text of a body the parser accepts
html_to_text(body) == <<"get_text", body>>

\* open(..., 'r', encoding='utf-8').read() succeeds
Utf8Readable(content) == content # Raw("bad")

\* ------------------------------------------------------------- the feed
Truthy(u) == u \notin {NoneV, ""}

Ref(u, t) == [url |-> u, type |-> t]

Link(r, h, t) == [rel |-> r, href |-> h, type |-> t]

PtAbsent == [tag |-> "absent", refs |-> <<>>]
PtDict(r) == [tag |-> "dict", refs |-> <<r>>]
PtList(rs) == [tag |-> "list", refs |-> rs]

\* Strategy 1: the podcast_transcript key, a list (first element) or a dict
Strategy1(entry) ==
    LET pt == entry.podcast_transcript
    IN  IF pt.tag = "list" /\ Len(pt.refs) > 0 THEN pt.refs[1]
        ELSE IF pt.tag = "dict" THEN pt.refs[1]
        ELSE Ref(NoneV, NoneV)

\* a scan that takes the first link whatever its rel
FirstLinkAnyRel(links) == IF links # <<>> THEN 1 ELSE 0

\* the first link with rel == 'transcript', 0 when there is none
FirstTranscriptLink(links) ==
    IF \E k \in DOMAIN links : links[k].rel = "transcript"
    THEN CHOOSE k \in DOMAIN links :
            /\ links[k].rel = "transcript"
            /\ \A j \in 1..(k - 1) : links[j].rel # "transcript"
    ELSE 0

\* a resolver that lets the link win over the extension field
ResolvePreferLink(entry) ==
    LET k == FirstTranscriptLink(entry.links)
    IN  IF k # 0 THEN Ref(entry.links[k].href, entry.links[k].type)
        ELSE Strategy1(entry)

\* lines 122-145; strategy 2 runs only when strategy 1 gave no URL
Resolve(entry) ==
    LET s1 == Strategy1(entry)
        k == FirstTranscriptLink(entry.links)
    IN  IF ~Truthy(s1.url) /\ k # 0
        THEN Ref(entry.links[k].href, entry.links[k].type)
        ELSE s1

ExtOf(transcript_type) ==
    CASE transcript_type = "application/json" -> ".json"
      [] transcript_type = "text/vtt" -> ".vtt"
      [] transcript_type = "application/srt" -> ".srt"
      [] transcript_type = "text/html" -> ".html"
      [] OTHER -> ".txt"

\* entry.get('title', f"Episode_{i}"), i counted from 0
EpisodeTitle(entry, i) ==
    IF entry.title = NoTitle THEN <<"Episode_", ToString(i - 1)>> ELSE entry.title

DatePrefix(entry) ==
    IF entry.published = NoDate THEN "0000-00-00" ELSE entry.published

FileName(entry, i) ==
    <<DatePrefix(entry), "_">> \o sanitize_filename(EpisodeTitle(entry, i))
        \o <<ExtOf(Resolve(entry).type)>>

\* --------------------------------------------------------------- paths
podcast_title_of(ft) == sanitize_filename(ft)

\* os.path.join(output_base, podcast_title), output_base = 'downloads'
output_dir_of(ft) == PathJoin(<<"downloads">>, podcast_title_of(ft))

log_path_of(ft) == PathJoin(output_dir_of(ft), <<"download_log.txt">>)

csv_path_of(ft) == PathJoin(output_dir_of(ft), <<"skipped_episodes.csv">>)

agg_filename_of(podcast_title) ==
    sanitize_filename(podcast_title) \o <<"_", "All_Transcripts", ".txt">>

file_path_of(ft, entry, i) == PathJoin(output_dir_of(ft), FileName(entry, i))

IsHtml(entry) == ExtOf(Resolve(entry).type) = ".html"

\* an existence test on the raw file itself
check_path_raw(ft, entry, i) == file_path_of(ft, entry, i)

\* the path whose existence is tested: file_path.replace('.html', '.txt')
check_path_of(ft, entry, i) ==
    IF IsHtml(entry) THEN ReplaceHtml(file_path_of(ft, entry, i))
    ELSE file_path_of(ft, entry, i)

\* the converted file: os.path.join(output_dir, filename.replace('.html', '.txt'))
txt_path_of(ft, entry, i) ==
    PathJoin(output_dir_of(ft), ReplaceHtml(FileName(entry, i)))

\* ---------------------------------------------------- the download block
\* a download block without raise_for_status: the error body is saved first
DownloadBlockNoStatusCheck(disk, ft, entry, i, resp) ==
    IF resp = "fail"
    THEN [disk |-> Write(disk, file_path_of(ft, entry, i), Raw(resp)), status |-> "error"]
    ELSE IF IsHtml(entry) /\ HtmlRejected(resp)
    THEN [disk |-> Write(disk, file_path_of(ft, entry, i), Raw(resp)), status |-> "error"]
    ELSE [disk |-> IF IsHtml(entry)
                   THEN Write(Write(disk, file_path_of(ft, entry, i), Raw(resp)),
                              txt_path_of(ft, entry, i), html_to_text(resp))
                   ELSE Write(disk, file_path_of(ft, entry, i), Raw(resp)),
          status |-> "success"]

\* lines 185-222: the try block and its except, for the response resp
DownloadBlock(disk, ft, entry, i, resp) ==
    LET fp == file_path_of(ft, entry, i)
        written == Write(disk, fp, Raw(resp))
    IN  IF resp = "fail" THEN [disk |-> disk, status |-> "error"]
        ELSE IF IsHtml(entry)
        THEN IF HtmlRejected(resp)
             THEN [disk |-> written, status |-> "error"]
             ELSE [disk |-> Write(written, txt_path_of(ft, entry, i), html_to_text(resp)),
                   status |-> "success"]
        ELSE [disk |-> Write(written, fp, Raw(resp)), status |-> "success"]

\* ------------------------------------------------------- the aggregator
TxtFiles(disk, output_dir) ==
    { f \in ListDir(disk, output_dir) :
        /\ EndsWith(f, ".txt")
        /\ ~Contains(f, "All_Transcripts")
        /\ f # <<"download_log.txt">> }

RECURSIVE Sections(_, _, _)
Sections(disk, output_dir, names) ==
    IF names = <<>> THEN <<>>
    ELSE LET fname == Head(names)
             content == disk[PathJoin(output_dir, fname)]
             rest == Sections(disk, output_dir, Tail(names))
         IN  IF Utf8Readable(content)
             THEN <<[episode |-> fname, content |-> content]>> \o rest
             ELSE rest

create_aggregated_file(disk, output_dir, podcast_title, now) ==
    LET txt_files == Sorted(TxtFiles(disk, output_dir))
    IN  IF txt_files = <<>> THEN disk
        ELSE Write(disk, PathJoin(output_dir, agg_filename_of(podcast_title)),
                   [title |-> podcast_title, generated |-> now,
                    sections |-> Sections(disk, output_dir, txt_files)])

\* ------------------------------------------------------------ the inputs
\* (title, published_parsed) of an entry
Headings ==
    { <<NoTitle, "2023-01-05">>,
      <<<<"All_Transcripts", " ", "?">>, NoDate>> }

\* the transcript markup of an entry: (podcast_transcript, links)
Shapes ==
    { <<PtAbsent, <<Link("alternate", "u1", "text/html")>>>>,
      <<PtList(<<Ref("u1", "text/html"), Ref("u2", "application/json")>>),
        <<Link("transcript", "u2", NoneV)>>>>,
      <<PtDict(Ref(NoneV, "text/html")),
        <<Link("alternate", "u1", "text/html"), Link("transcript", "u2", NoneV)>>>> }

Entries ==
    { [title |-> h[1], published |-> h[2], podcast_transcript |-> sh[1], links |-> sh[2]] :
        h \in Headings, sh \in Shapes }

FeedTitles == {NoTitle, <<"P", ":">>, <<"P", ".html">>}

RECURSIVE SeqsUpTo(_, _)
SeqsUpTo(S, n) ==
    IF n = 0 THEN {<<>>}
    ELSE LET shorter == SeqsUpTo(S, n - 1)
         IN  shorter \cup { Append(s, x) : s \in { t \in shorter : Len(t) = n - 1 }, x \in S }

\* ------------------------------------------------------------- the state
VARIABLES
    feed_title,      \* feed.feed.title, NoTitle when the feed has none
    entries,         \* feed.entries
    fs,              \* the files on disk: path -> content
    dirs,            \* the directories made by os.makedirs
    pc,              \* "idle", "fetched" (feed requested), "loop"
    feed_resp,       \* what the last GET of the feed brought: "ok", "fail"; "none" before
    i,               \* the entry the loop is at (1-based)
    success_count, skip_count, fail_count,
    completed,       \* runs that reached the summary line; also the clock
    requests,        \* the transcript GETs of the current run: <<i, url, resp>>
    outcomes,        \* the outcome of each entry processed in the current run
    body,            \* the body each URL serves, "unknown" until first served
    seen,            \* the first response of each URL
    stable,          \* every URL has answered every request alike
    prev_fs,         \* the disk when the current run started
    prev_outcomes    \* the outcomes of the complete run before the current one

vars == <<feed_title, entries, fs, dirs, pc, feed_resp, i, success_count,
          skip_count, fail_count, completed, requests, outcomes, body, seen,
          stable, prev_fs, prev_outcomes>>

feed == <<feed_title, entries>>
counters == <<success_count, skip_count, fail_count>>
history == <<prev_fs, prev_outcomes>>
network == <<body, seen, stable>>

EmptyDisk == [p \in {} |-> <<>>]

Init ==
    /\ feed_title \in FeedTitles
    /\ entries \in SeqsUpTo(Entries, MaxEntries)
    /\ fs = EmptyDisk
    /\ dirs = {}
    /\ pc = "idle"
    /\ feed_resp = "none"
    /\ i = 1
    /\ success_count = 0 /\ skip_count = 0 /\ fail_count = 0
    /\ completed = 0
    /\ requests = <<>>
    /\ outcomes = <<>>
    /\ body = [u \in Urls |-> "unknown"]
    /\ seen = [u \in Urls |-> "unseen"]
    /\ stable = TRUE
    /\ prev_fs = EmptyDisk
    /\ prev_outcomes = <<>>

\* ------------------------------------------------------------ get_transcripts
\* line 70: requests.get(rss_url, ...)
FetchFeed ==
    /\ pc = "idle"
    /\ completed < MaxRuns
    /\ \E r \in {"ok", "fail"} : feed_resp' = r
    /\ pc' = "fetched"
    /\ UNCHANGED <<feed, fs, dirs, i, counters, completed, requests, outcomes,
                   network, history>>

FetchOk(resp) == resp = "ok"

\* a title test that lets every feed through
HasTitleAlways(ft) == TRUE

\* line 81: hasattr(feed.feed, 'title')
HasTitle(ft) == ft # NoTitle

\* lines 74-76: the fetch raised
FeedError ==
    /\ pc = "fetched"
    /\ ~FetchOk(feed_resp)
    /\ pc' = "idle"
    /\ UNCHANGED <<feed, fs, dirs, feed_resp, i, counters, completed,
                   requests, outcomes, network, history>>

\* lines 81-83: no feed title
FeedNoTitle ==
    /\ pc = "fetched"
    /\ FetchOk(feed_resp)
    /\ ~HasTitle(feed_title)
    /\ pc' = "idle"
    /\ UNCHANGED <<feed, fs, dirs, feed_resp, i, counters, completed,
                   requests, outcomes, network, history>>

LogLine(kind, title, detail) == [kind |-> kind, title |-> title, detail |-> detail]

CsvRow(title, reason, date, details) ==
    [title |-> title, reason |-> reason, date |-> date, details |-> details]

CsvHeader == CsvRow(<<"Episode Title">>, "Reason", "Date", "Details")

\* lines 85-109: directory, counters, CSV header, log banner
StartRun ==
    /\ pc = "fetched"
    /\ FetchOk(feed_resp)
    /\ HasTitle(feed_title)
    /\ dirs' = dirs \cup {output_dir_of(feed_title)}
    /\ success_count' = 0 /\ skip_count' = 0 /\ fail_count' = 0
    /\ LET withCsv == IF Exists(fs, csv_path_of(feed_title)) THEN fs
                      ELSE Write(fs, csv_path_of(feed_title), <<CsvHeader>>)
           withLog == IF Exists(withCsv, log_path_of(feed_title)) THEN withCsv
                      ELSE Write(withCsv, log_path_of(feed_title), <<>>)
       IN  fs' = Append2(withLog, log_path_of(feed_title),
                         LogLine("Run started", <<>>, ToString(completed)))
    /\ i' = 1
    /\ pc' = "loop"
    /\ requests' = <<>>
    /\ outcomes' = <<>>
    /\ prev_fs' = fs
    /\ prev_outcomes' = outcomes
    /\ UNCHANGED <<feed, feed_resp, completed, network>>

Outcome(idx, kind, ref) ==
    [idx |-> idx, kind |-> kind, url |-> ref.url, type |-> ref.type]

\* a loop that an error ends
NextIndexBreakOnError(idx, status) ==
    IF status = "error" THEN Len(entries) + 1 ELSE idx + 1

\* line 111: the loop goes on to the next entry whatever the outcome
NextIndex(idx, status) == idx + 1

\* lines 147-157: no transcript URL
NoTag ==
    /\ pc = "loop"
    /\ i <= Len(entries)
    /\ LET entry == entries[i]
           title == EpisodeTitle(entry, i)
       IN  /\ ~Truthy(Resolve(entry).url)
           /\ fs' = Append2(Append2(fs, log_path_of(feed_title),
                                    LogLine("SKIP [No Tag]", title, "")),
                            csv_path_of(feed_title),
                            CsvRow(title, "No Tag", DatePrefix(entry),
                                   "No podcast:transcript tag found"))
           /\ outcomes' = Append(outcomes, Outcome(i, "notag", Resolve(entry)))
    /\ skip_count' = skip_count + 1
    /\ i' = NextIndex(i, "notag")
    /\ UNCHANGED <<feed, dirs, pc, feed_resp, success_count, fail_count,
                   completed, requests, network, history>>

\* lines 178-182: the check path exists
SkipExists ==
    /\ pc = "loop"
    /\ i <= Len(entries)
    /\ LET entry == entries[i]
       IN  /\ Truthy(Resolve(entry).url)
           /\ Exists(fs, check_path_of(feed_title, entry, i))
           /\ fs' = Append2(fs, log_path_of(feed_title),
                            LogLine("SKIP [Exists]", EpisodeTitle(entry, i), ""))
           /\ outcomes' = Append(outcomes, Outcome(i, "exists", Resolve(entry)))
    /\ skip_count' = skip_count + 1
    /\ i' = NextIndex(i, "exists")
    /\ UNCHANGED <<feed, dirs, pc, feed_resp, success_count, fail_count,
                   completed, requests, network, history>>

\* line 187: the GET of the transcript URL, answered by resp: an error, or
\* the body the URL serves
Request(url, resp) ==
    /\ resp = "fail" \/ body[url] \in {"unknown", resp}
    /\ requests' = Append(requests, <<i, url, resp>>)
    /\ body' = IF resp # "fail" THEN [body EXCEPT ![url] = resp] ELSE body
    /\ seen' = IF seen[url] = "unseen" THEN [seen EXCEPT ![url] = resp] ELSE seen
    /\ stable' = (stable /\ seen[url] \in {"unseen", resp})

\* lines 185-212, the try block ran to its end
DownloadSuccess ==
    /\ pc = "loop"
    /\ i <= Len(entries)
    /\ LET entry == entries[i]
           ref == Resolve(entry)
       IN  /\ Truthy(ref.url)
           /\ ~Exists(fs, check_path_of(feed_title, entry, i))
           /\ \E resp \in Responses :
                LET res == DownloadBlock(fs, feed_title, entry, i, resp)
                IN  /\ res.status = "success"
                    /\ Request(ref.url, resp)
                    /\ fs' = Append2(res.disk, log_path_of(feed_title),
                                     LogLine("SUCCESS", EpisodeTitle(entry, i),
                                             IF IsHtml(entry) THEN "(from HTML)" ELSE ""))
           /\ outcomes' = Append(outcomes, Outcome(i, "success", ref))
    /\ success_count' = success_count + 1
    /\ i' = NextIndex(i, "success")
    /\ UNCHANGED <<feed, dirs, pc, feed_resp, skip_count, fail_count,
                   completed, history>>

\* lines 214-222: something in the try block raised
DownloadError ==
    /\ pc = "loop"
    /\ i <= Len(entries)
    /\ LET entry == entries[i]
           ref == Resolve(entry)
           title == EpisodeTitle(entry, i)
       IN  /\ Truthy(ref.url)
           /\ ~Exists(fs, check_path_of(feed_title, entry, i))
           /\ \E resp \in Responses :
                LET res == DownloadBlock(fs, feed_title, entry, i, resp)
                IN  /\ res.status = "error"
                    /\ Request(ref.url, resp)
                    /\ fs' = Append2(Append2(res.disk, log_path_of(feed_title),
                                             LogLine("ERROR", title, resp)),
                                     csv_path_of(feed_title),
                                     CsvRow(title, "Download Error", DatePrefix(entry), resp))
           /\ outcomes' = Append(outcomes, Outcome(i, "fail", ref))
    /\ fail_count' = fail_count + 1
    /\ i' = NextIndex(i, "error")
    /\ UNCHANGED <<feed, dirs, pc, feed_resp, success_count, skip_count,
                   completed, history>>

\* lines 224-227: the loop is over; summary line, then the aggregate
Finish ==
    /\ pc = "loop"
    /\ i > Len(entries)
    /\ fs' = create_aggregated_file(fs, output_dir_of(feed_title),
                                    podcast_title_of(feed_title), ToString(completed))
    /\ pc' = "idle"
    /\ completed' = completed + 1
    /\ UNCHANGED <<feed, dirs, feed_resp, i, counters, requests, outcomes,
                   network, history>>

Next ==
    \/ FetchFeed
    \/ FeedError
    \/ FeedNoTitle
    \/ StartRun
    \/ NoTag
    \/ SkipExists
    \/ DownloadSuccess
    \/ DownloadError
    \/ Finish

Spec == Init /\ [][Next]_vars

\* ------------------------------------------------------------ properties
agg_path_of(ft) ==
    PathJoin(output_dir_of(ft), agg_filename_of(podcast_title_of(ft)))

ReportPaths == {log_path_of(feed_title), csv_path_of(feed_title), agg_path_of(feed_title)}

\* the per-episode artifacts: every file but the log, the CSV and the aggregate
EpisodeFiles(disk) == [p \in (DOMAIN disk) \ ReportPaths |-> disk[p]]

\* the converted .txt file for an HTML transcript, the resolved file otherwise
CanonicalPath(entry, idx) ==
    IF IsHtml(entry) THEN txt_path_of(feed_title, entry, idx)
    ELSE file_path_of(feed_title, entry, idx)

AtEntry == pc = "loop" /\ i <= Len(entries)

Sum == success_count + skip_count + fail_count

OneLineAdded(old, new, p) ==
    /\ Exists(old, p) /\ Exists(new, p)
    /\ Len(new[p]) = Len(old[p]) + 1
    /\ SubSeq(new[p], 1, Len(old[p])) = old[p]

SameBut(old, new, paths) ==
    /\ DOMAIN new = DOMAIN old
    /\ \A p \in (DOMAIN old) \ paths : new[p] = old[p]

\* C1: two runs against an unchanged feed with unchanged responses leave the
\* same per-episode artifacts, and the second run's success counter is 0.
C1_Idempotent ==
    (pc = "idle" /\ completed >= 2 /\ stable)
        => /\ EpisodeFiles(fs) = EpisodeFiles(prev_fs)
           /\ success_count = 0

\* C2: an entry with a transcript URL whose canonical path exists (the
\* converted .txt file for HTML) is skipped: skip counter + 1, no request, no
\* artifact written or changed.
C2_ExistingIsSkipped ==
    [][(/\ AtEntry
        /\ Truthy(Resolve(entries[i]).url)
        /\ Exists(fs, CanonicalPath(entries[i], i)))
          => /\ skip_count' = skip_count + 1
             /\ UNCHANGED <<success_count, fail_count, requests>>
             /\ EpisodeFiles(fs') = EpisodeFiles(fs)]_vars

\* C3 as stated: whenever an entry ends as a failure, no artifact has been
\* created or changed; only a log line and a "Download Error" row are added.
C3_FailureWritesNothing ==
    [][(AtEntry /\ fail_count' = fail_count + 1)
          => /\ SameBut(fs, fs', {log_path_of(feed_title), csv_path_of(feed_title)})
             /\ OneLineAdded(fs, fs', log_path_of(feed_title))
             /\ OneLineAdded(fs, fs', csv_path_of(feed_title))]_vars

LastResp(reqs) == reqs[Len(reqs)][3]

\* C3 amended: a GET that fails ends the entry as a failure with nothing but
\* one log line and one "Download Error" row added; a failure of the HTML
\* conversion ends it as a failure too, with the raw file already written.
C3_FailedGetWritesNothing ==
    [][(AtEntry /\ requests' # requests)
          => LET lp == log_path_of(feed_title)
                 cp == csv_path_of(feed_title)
                 fp == file_path_of(feed_title, entries[i], i)
             IN  /\ LastResp(requests') = "fail"
                    => /\ fail_count' = fail_count + 1
                       /\ UNCHANGED <<success_count, skip_count>>
                       /\ SameBut(fs, fs', {lp, cp})
                       /\ OneLineAdded(fs, fs', lp)
                       /\ OneLineAdded(fs, fs', cp)
                       /\ fs'[cp][Len(fs'[cp])].reason = "Download Error"
                 /\ (LastResp(requests') # "fail" /\ fail_count' = fail_count + 1)
                    => /\ IsHtml(entries[i])
                       /\ Exists(fs', fp) /\ fs'[fp] = Raw(LastResp(requests'))
                       /\ \A p \in (DOMAIN fs') \ {lp, cp, fp} :
                             Exists(fs, p) /\ fs'[p] = fs[p]]_vars

C3_Witness ==
    /\ requests # <<>>
    /\ LastResp(requests) = "fail"
    /\ outcomes # <<>>
    /\ outcomes[Len(outcomes)].kind = "fail"

OutcomesSoFar ==
    /\ Sum = Len(outcomes)
    /\ \A j \in DOMAIN outcomes : outcomes[j].idx = j
    /\ pc = "loop" => (Len(outcomes) = i - 1 /\ i <= Len(entries) + 1)
    /\ (pc # "loop" /\ completed > 0) => (Len(outcomes) = Len(entries) /\ Sum = Len(entries))

\* C4: every entry is processed in feed order and yields exactly one outcome
\* whatever the earlier outcomes were: each step of the loop adds the outcome
\* of entry i and leaves the loop at entry i + 1; at the end of the run
\* success + skip + fail is the number of entries.
C4_EveryEntryOneOutcome ==
    /\ []OutcomesSoFar
    /\ [][AtEntry => /\ pc' = "loop"
                     /\ i' = i + 1
                     /\ outcomes' = Append(outcomes, outcomes'[i])
                     /\ outcomes'[i].kind \in {"notag", "exists", "success", "fail"}
                     /\ Sum' = Sum + 1]_vars

C4_Witness ==
    /\ pc = "idle" /\ completed > 0
    /\ Len(entries) = 2
    /\ outcomes[1].kind = "fail"
    /\ outcomes[2].kind = "success"

HasExtension(entry) == entry.podcast_transcript.tag # "absent"

HasTranscriptLink(entry) == \E k \in DOMAIN entry.links : entry.links[k].rel = "transcript"

\* C6 as stated: an entry with both an extension field and a transcript link
\* takes URL and type from the extension field.
C6_ExtensionAlwaysWins ==
    \A j \in DOMAIN outcomes :
        (HasExtension(entries[j]) /\ HasTranscriptLink(entries[j]))
            => /\ outcomes[j].url = Strategy1(entries[j]).url
               /\ outcomes[j].type = Strategy1(entries[j]).type

\* C6 amended: with both present, the extension field's record (the first of
\* a list) gives URL and type whenever it has a non-empty url; when it has
\* none, the first transcript link gives them.
C6_ExtensionWinsWhenItHasUrl ==
    \A j \in DOMAIN outcomes :
        LET entry == entries[j]
            k == CHOOSE n \in DOMAIN entry.links :
                    /\ entry.links[n].rel = "transcript"
                    /\ \A m \in 1..(n - 1) : entry.links[m].rel # "transcript"
        IN  (HasExtension(entry) /\ HasTranscriptLink(entry))
              => IF Truthy(entry.podcast_transcript.refs[1].url)
                 THEN /\ outcomes[j].url = entry.podcast_transcript.refs[1].url
                      /\ outcomes[j].type = entry.podcast_transcript.refs[1].type
                 ELSE /\ outcomes[j].url = entry.links[k].href
                      /\ outcomes[j].type = entry.links[k].type

C6_Witness ==
    \E j \in DOMAIN outcomes :
        /\ HasExtension(entries[j]) /\ HasTranscriptLink(entries[j])
        /\ entries[j].podcast_transcript.tag = "list"
        /\ outcomes[j].url = "u1"
        /\ outcomes[j].type = "text/html"
        /\ outcomes[j].kind = "success"

NoRefs(entry) == ~HasExtension(entry) /\ ~HasTranscriptLink(entry)

\* C7: an entry with neither an extension field nor a transcript link adds
\* exactly one CSV row with reason "No Tag", adds one to the skip counter
\* only, makes no request and writes no episode file.
C7_NoTagAccounting ==
    [][(AtEntry /\ NoRefs(entries[i]))
          => /\ skip_count' = skip_count + 1
             /\ UNCHANGED <<success_count, fail_count, requests>>
             /\ OneLineAdded(fs, fs', csv_path_of(feed_title))
             /\ fs'[csv_path_of(feed_title)][Len(fs'[csv_path_of(feed_title)])].reason = "No Tag"
             /\ EpisodeFiles(fs') = EpisodeFiles(fs)]_vars

C7_Witness ==
    \E j \in DOMAIN outcomes :
        /\ NoRefs(entries[j])
        /\ entries[j].links # <<>>
        /\ outcomes[j].kind = "notag"
        /\ skip_count > 0

OneRequestPerEntry(reqs) ==
    \A a, b \in DOMAIN reqs : reqs[a][1] = reqs[b][1] => a = b

FailedLastRun(idx) == idx \in DOMAIN prev_outcomes /\ prev_outcomes[idx].kind = "fail"

RequestMadeFor(idx) ==
    /\ Len(requests') = Len(requests) + 1
    /\ requests'[Len(requests')][1] = idx

\* C8 as stated: at most one request per entry per run, and an entry whose
\* download failed in the last run is requested again in the next one.
C8_FailedIsRetriedNextRun ==
    [][/\ OneRequestPerEntry(requests')
       /\ (AtEntry /\ FailedLastRun(i)) => RequestMadeFor(i)]_vars

ArtifactPaths(entry, idx) ==
    {file_path_of(feed_title, entry, idx)}
        \cup (IF IsHtml(entry) THEN {txt_path_of(feed_title, entry, idx)} ELSE {})

\* entry j was downloaded successfully after entry idx failed in the last run
SucceededSince(j, idx) ==
    \/ j > idx /\ j \in DOMAIN prev_outcomes /\ prev_outcomes[j].kind = "success"
    \/ j < idx /\ j \in DOMAIN outcomes /\ outcomes[j].kind = "success"

\* C8 amended: at most one request per entry per run; an entry whose download
\* failed in the last run is requested again in the next one unless another
\* entry, whose artifact lies at this entry's existence-check path, has been
\* downloaded since: then the entry is skipped as already existing.
C8_FailedIsRetriedUnlessShadowed ==
    [][/\ OneRequestPerEntry(requests')
       /\ (AtEntry /\ FailedLastRun(i))
            => \/ RequestMadeFor(i)
               \/ /\ requests' = requests
                  /\ outcomes'[i].kind = "exists"
                  /\ \E j \in (DOMAIN entries) \ {i} :
                        /\ check_path_of(feed_title, entries[i], i)
                              \in ArtifactPaths(entries[j], j)
                        /\ SucceededSince(j, i)]_vars

C8_Witness ==
    /\ completed = 1
    /\ pc = "loop"
    /\ \E k \in DOMAIN requests :
          /\ FailedLastRun(requests[k][1])
          /\ IsHtml(entries[requests[k][1]])
          /\ prev_fs # EmptyDisk

\* C9: after a run the aggregate holds every readable .txt file of the output
\* directory except download_log.txt and the aggregate itself, each once, in
\* ascending file name order.
C9_AggregateHasEveryTxt ==
    (pc = "idle" /\ completed >= 1)
        => LET dir == output_dir_of(feed_title)
               names == { f \in ListDir(fs, dir) :
                            /\ EndsWith(f, ".txt")
                            /\ f # <<"download_log.txt">>
                            /\ f # agg_filename_of(podcast_title_of(feed_title))
                            /\ Utf8Readable(fs[PathJoin(dir, f)]) }
           IN  names # {}
                 => /\ Exists(fs, agg_path_of(feed_title))
                    /\ [k \in DOMAIN fs[agg_path_of(feed_title)].sections |->
                           fs[agg_path_of(feed_title)].sections[k].episode] = Sorted(names)

\* C10: once the success counter has counted an entry, a file exists at the
\* path the existence check tests for it, and for an HTML transcript both the
\* raw .html file and the converted .txt file exist.
C10_SuccessLeavesCheckedFile ==
    \A j \in DOMAIN outcomes :
        outcomes[j].kind = "success"
            => /\ Exists(fs, check_path_of(feed_title, entries[j], j))
               /\ IsHtml(entries[j])
                    => /\ Exists(fs, file_path_of(feed_title, entries[j], j))
                       /\ Exists(fs, txt_path_of(feed_title, entries[j], j))

====
